---- MODULE Spec2Model ----
(***************************************************************************)
(* Model of bmp_ctf_tool.py: the BMP header repair (fix) and the variant   *)
(* generator (brute_variants), over byte buffers.                          *)
(*                                                                         *)
(* A buffer is a sequence of bytes; Python's byte offset o is index o + 1. *)
(* Python integers are unbounded: every value the model computes stays far *)
(* below 2^31, so no arithmetic wraps.  Python's // and % floor, as \div   *)
(* and % do here (all divisors are positive).                              *)
(***************************************************************************)
EXTENDS Integers, Sequences, FiniteSets

(* ------------------------------ bounds --------------------------------- *)
MinLen   == 28    \* shortest input file
ShortMax == 66    \* input lengths range over MinLen..ShortMax
LongMin  == 104   \*   and over LongMin..MaxLen
MaxLen   == 112   \* longest input file
MaxDim   == 3     \* declared width and height range over 0..MaxDim
BigDim   == 258   \* one more declared height, wider than one byte

(* -------------------------- struct helpers ----------------------------- *)
\* byte k (0 = least significant) of the little-endian encoding of v
LEByte(v, k) ==
  CASE k = 0 -> v % 256
    [] k = 1 -> (v \div 256) % 256
    [] k = 2 -> (v \div 65536) % 256
    [] OTHER -> (v \div 16777216) % 256

\* struct.unpack_from raises struct.error when the field leaves the buffer
CanUnpack(b, o, n) == o + n <= Len(b)

u16(b, o) == b[o + 1] + 256 * b[o + 2]

u32(b, o) == b[o + 1] + 256 * b[o + 2] + 65536 * b[o + 3] + 16777216 * b[o + 4]

\* struct.pack_into('<I') raises struct.error unless 0 <= v < 2^32 and the
\* four bytes fit in the buffer
CanPack32(b, o, v) == v >= 0 /\ v \div 65536 < 65536 /\ o + 4 <= Len(b)

\* writes 8 bytes ('<Q') instead of 4
p32Q(b, o, v) ==
  [i \in 1..Len(b) |->
     IF i > o /\ i <= o + 4 THEN LEByte(v, i - o - 1)
     ELSE IF i > o + 4 /\ i <= o + 8 THEN 0
     ELSE b[i]]

p32(b, o, v) ==
  [i \in 1..Len(b) |-> IF i > o /\ i <= o + 4 THEN LEByte(v, i - o - 1) ELSE b[i]]

\* no padding to a 4-byte boundary
rowUnpadded(w, bpp) == w * (bpp \div 8)

row(w, bpp) == ((w * (bpp \div 8) + 3) \div 4) * 4

NoHeader ==
  [file_size |-> 0, offset |-> 0, dib_size |-> 0, width |-> 0, height |-> 0, bpp |-> 0]

header(b) ==
  [file_size |-> u32(b, 2),
   offset    |-> u32(b, 10),
   dib_size  |-> u32(b, 14),
   width     |-> u32(b, 18),
   height    |-> u32(b, 22),
   bpp       |-> u16(b, 28)]

HasSignature(b) == Len(b) >= 2 /\ b[1] = 66 /\ b[2] = 77

Abs(n) == IF n < 0 THEN -n ELSE n

(* ------------------------------- fix ----------------------------------- *)
\* The local state of fix: the working buffer, the header dict, the changed
\* flag, the exception raised (if any) and whether the warning was printed.
Raise(s, e) == [s EXCEPT !.err = e]

\* p32(buf, o, v); hdr[field] = v; changed = True
SetField(s, o, field, v) ==
  IF CanPack32(s.buf, o, v)
  THEN [s EXCEPT !.buf = p32(s.buf, o, v), !.hdr[field] = v, !.changed = TRUE]
  ELSE Raise(s, "StructError")

Load(b) ==
  LET s0 == [buf |-> b, hdr |-> NoHeader, original |-> NoHeader,
             changed |-> FALSE, err |-> "none", warned |-> FALSE]
  IN  IF ~HasSignature(b) THEN Raise(s0, "NotBMP")
      ELSE IF ~CanUnpack(b, 28, 2) THEN Raise(s0, "StructError")
      ELSE [s0 EXCEPT !.hdr = header(b), !.original = header(b)]

\* corrects the offset of 8-bpp images too
FixOffsetFrom8(s) ==
  IF s.err # "none" THEN s
  ELSE IF s.hdr.bpp >= 8 /\ s.hdr.offset # 54 THEN SetField(s, 10, "offset", 54)
  ELSE s

FixOffset(s) ==
  IF s.err # "none" THEN s
  ELSE IF s.hdr.bpp > 8 /\ s.hdr.offset # 54 THEN SetField(s, 10, "offset", 54)
  ELSE s

FixDib(s) ==
  IF s.err # "none" THEN s
  ELSE IF s.hdr.dib_size # 40 THEN SetField(s, 14, "dib_size", 40)
  ELSE s

FixFileSize(s) ==
  IF s.err # "none" THEN s
  ELSE IF s.hdr.file_size # Len(s.buf) THEN SetField(s, 2, "file_size", Len(s.buf))
  ELSE s

bytes_px(s) == Len(s.buf) - s.hdr.offset

CheckBpp(s) ==
  IF s.err # "none" THEN s
  ELSE IF s.hdr.bpp \div 8 = 0 THEN Raise(s, "InvalidBpp")
  ELSE s

\* accepts a row size that is not a multiple of 4
InferWidthAnyStride(s) ==
  IF s.err # "none" THEN s
  ELSE IF s.hdr.height # 0 /\ bytes_px(s) % s.hdr.height = 0
  THEN LET row_bytes == bytes_px(s) \div s.hdr.height
           w         == row_bytes \div (s.hdr.bpp \div 8)
       IN  IF w # 0 /\ w # s.hdr.width
           THEN SetField(s, 18, "width", w)
           ELSE s
  ELSE s

InferWidth(s) ==
  IF s.err # "none" THEN s
  ELSE IF s.hdr.height # 0 /\ bytes_px(s) % s.hdr.height = 0
  THEN LET row_bytes == bytes_px(s) \div s.hdr.height
           w         == row_bytes \div (s.hdr.bpp \div 8)
       IN  IF row_bytes % 4 = 0 /\ w # 0 /\ w # s.hdr.width
           THEN SetField(s, 18, "width", w)
           ELSE s
  ELSE s

\* never adopts the quotient
InferHeightSkipped(s) == s

InferHeight(s) ==
  IF s.err # "none" THEN s
  ELSE LET rsize == row(s.hdr.width, s.hdr.bpp)
       IN  IF rsize # 0 /\ bytes_px(s) % rsize = 0
           THEN LET h == bytes_px(s) \div rsize
                IN  IF h # 0 /\ h # s.hdr.height
                    THEN SetField(s, 22, "height", h)
                    ELSE s
           ELSE s

\* cuts the buffer but does not write the new length back
TruncateStaleSize(s) ==
  IF s.err # "none" THEN s
  ELSE LET expected == s.hdr.offset + row(s.hdr.width, s.hdr.bpp) * Abs(s.hdr.height)
       IN  IF Len(s.buf) > expected
           THEN [s EXCEPT !.buf = SubSeq(s.buf, 1, expected), !.changed = TRUE]
           ELSE IF Len(s.buf) < expected THEN [s EXCEPT !.warned = TRUE]
           ELSE s

Truncate(s) ==
  IF s.err # "none" THEN s
  ELSE LET expected == s.hdr.offset + row(s.hdr.width, s.hdr.bpp) * Abs(s.hdr.height)
           cut      == SubSeq(s.buf, 1, expected)
       IN  IF Len(s.buf) > expected
           THEN IF CanPack32(cut, 2, Len(cut))
                THEN [s EXCEPT !.buf = p32(cut, 2, Len(cut)),
                               !.hdr.file_size = Len(cut), !.changed = TRUE]
                ELSE Raise([s EXCEPT !.buf = cut], "StructError")
           ELSE IF Len(s.buf) < expected THEN [s EXCEPT !.warned = TRUE]
           ELSE s

fix(b) ==
  Truncate(InferHeight(InferWidth(CheckBpp(FixFileSize(FixDib(FixOffset(Load(b))))))))

(* --------------------------- brute_variants ---------------------------- *)
\* One variant file: nb = copy of the repaired file, p32(nb, o, v),
\* p32(nb, 2, len(nb)), written under variants/.
Emit(r, nb, kind, o, v) ==
  IF r.err # "none" THEN r
  ELSE IF CanPack32(nb, o, v) /\ CanPack32(nb, 2, Len(nb))
  THEN [r EXCEPT !.files = Append(@, [kind |-> kind, value |-> v,
                                      buf |-> p32(p32(nb, o, v), 2, Len(nb))])]
  ELSE [r EXCEPT !.err = "StructError"]

\* stores the quotient in the width field (offset 18)
HeightVariantIntoWidth(r, nb, h, px) ==
  LET row_bytes == row(h.width, h.bpp)
  IN  IF row_bytes # 0 /\ px % row_bytes = 0 /\ px \div row_bytes # h.height
      THEN Emit(r, nb, "h", 18, px \div row_bytes)
      ELSE r

HeightVariant(r, nb, h, px) ==
  LET row_bytes == row(h.width, h.bpp)
  IN  IF row_bytes # 0 /\ px % row_bytes = 0 /\ px \div row_bytes # h.height
      THEN Emit(r, nb, "h", 22, px \div row_bytes)
      ELSE r

WidthVariant(r, nb, h, px) ==
  IF r.err # "none" THEN r
  ELSE IF h.height # 0 /\ px % h.height = 0
  THEN LET rb == px \div h.height
           w  == rb \div (h.bpp \div 8)
       IN  IF rb % 4 = 0 /\ w # h.width THEN Emit(r, nb, "w", 18, w) ELSE r
  ELSE r

brute_variants(nb, h, px) ==
  WidthVariant(HeightVariant([files |-> <<>>, err |-> "none"], nb, h, px), nb, h, px)

(* --------------------------- input files ------------------------------- *)
\* bytes that are neither signature nor header field
Filler(i) == (7 * i + 3) % 256

MkFile(len, sig, fs, off, dib, w, h, bpp) ==
  [i \in 1..len |->
     CASE i = 1              -> IF sig THEN 66 ELSE 80
       [] i = 2              -> IF sig THEN 77 ELSE 75
       [] i >= 3  /\ i <= 6  -> LEByte(fs, i - 3)
       [] i >= 11 /\ i <= 14 -> LEByte(off, i - 11)
       [] i >= 15 /\ i <= 18 -> LEByte(dib, i - 15)
       [] i >= 19 /\ i <= 22 -> LEByte(w, i - 19)
       [] i >= 23 /\ i <= 26 -> LEByte(h, i - 23)
       [] i >= 29 /\ i <= 30 -> LEByte(bpp, i - 29)
       [] OTHER              -> Filler(i)]

LenSet         == (MinLen..ShortMax) \cup (LongMin..MaxLen)
BppSet         == {0, 4, 8, 12, 24}
OffsetSet(len) == {0, 54, len}
\* fix never reads the dimensions of a file whose bpp it rejects
WidthSet(bpp)  == IF bpp < 8 THEN {0} ELSE 0..MaxDim
HeightSet(w)   == IF w = MaxDim THEN (0..MaxDim) \cup {BigDim} ELSE 0..MaxDim
\* files without the signature differ in length only
SigSet(fs, off, dib, w, h, bpp) ==
  IF fs = 0 /\ off = 54 /\ dib = 40 /\ w = 0 /\ h = 0 /\ bpp = 24
  THEN BOOLEAN ELSE {TRUE}

(* ------------------------------ state ---------------------------------- *)
VARIABLES
  file,       \* the input file (args.bmp)
  pc,         \* "start", "fixed" (fix returned), "done", "error"
  err,        \* the exception that ended the run, "none" otherwise
  written,    \* whether <stem>_fix.bmp exists
  out,        \* its content
  hdr,        \* header returned by fix
  original,   \* header as parsed from the input
  changed, warned,
  px,         \* pixel-byte count returned by fix
  variants    \* files written under variants/, in order

vars == <<file, pc, err, written, out, hdr, original, changed, warned, px, variants>>

Init ==
  /\ \E len \in LenSet, dib \in {0, 40}, bpp \in BppSet :
       \E fs \in {0, len}, off \in OffsetSet(len), w \in WidthSet(bpp) :
         \E h \in HeightSet(w) :
           \E sig \in SigSet(fs, off, dib, w, h, bpp) :
             file = MkFile(len, sig, fs, off, dib, w, h, bpp)
  /\ pc = "start"
  /\ err = "none"
  /\ written = FALSE
  /\ out = <<>>
  /\ hdr = NoHeader
  /\ original = NoHeader
  /\ changed = FALSE
  /\ warned = FALSE
  /\ px = 0
  /\ variants = <<>>

\* main with --info: print the header and return
Info ==
  /\ pc = "start"
  /\ IF CanUnpack(file, 28, 2)
     THEN pc' = "done" /\ err' = err
     ELSE pc' = "error" /\ err' = "StructError"
  /\ UNCHANGED <<file, written, out, hdr, original, changed, warned, px, variants>>

\* main without --info: print the header, then fix(args.bmp)
Fix ==
  /\ pc = "start"
  /\ IF ~CanUnpack(file, 28, 2)
     THEN /\ pc' = "error" /\ err' = "StructError"
          /\ UNCHANGED <<written, out, hdr, original, changed, warned, px>>
     ELSE LET s == fix(file)
          IN  /\ hdr' = s.hdr
              /\ original' = s.original
              /\ changed' = s.changed
              /\ warned' = s.warned
              /\ IF s.err = "none"
                 THEN /\ pc' = "fixed" /\ err' = err
                      /\ written' = TRUE
                      /\ out' = s.buf
                      /\ px' = bytes_px(s)
                 ELSE /\ pc' = "error" /\ err' = s.err
                      /\ UNCHANGED <<written, out, px>>
  /\ UNCHANGED <<file, variants>>

\* main with --brute: brute_variants(fixed_path, hdr_fixed, px)
BruteVariants ==
  /\ pc = "fixed"
  /\ LET r == brute_variants(out, hdr, px)
     IN  /\ variants' = r.files
         /\ IF r.err = "none"
            THEN pc' = "done" /\ err' = err
            ELSE pc' = "error" /\ err' = r.err
  /\ UNCHANGED <<file, written, out, hdr, original, changed, warned, px>>

\* main without --brute
Return ==
  /\ pc = "fixed"
  /\ pc' = "done"
  /\ UNCHANGED <<file, err, written, out, hdr, original, changed, warned, px, variants>>

Next == Info \/ Fix \/ BruteVariants \/ Return

Spec == Init /\ [][Next]_vars

TypeOK ==
  /\ pc \in {"start", "fixed", "done", "error"}
  /\ err \in {"none", "NotBMP", "InvalidBpp", "StructError"}
  /\ (pc = "error") = (err # "none")
  /\ written \in BOOLEAN

(* ------------------------- stated properties --------------------------- *)
\* the row stride as the specification states it
RowStride(w, bpp) == ((w * (bpp \div 8) + 3) \div 4) * 4

\* the header of the input file
In == header(file)

Parseable == HasSignature(file) /\ Len(file) >= 30

ValidBpp == In.bpp > 0 /\ In.bpp % 8 = 0

\* fix returned normally, having written the repaired file
FixReturned == written

\* the run ended in a fatal error before any file was written
FixFailed == pc = "error" /\ ~written

HeightVariants == {k \in 1..Len(variants) : variants[k].kind = "h"}
WidthVariants  == {k \in 1..Len(variants) : variants[k].kind = "w"}

\* C1 - Stride invariant: whenever fix returns without the truncation
\* warning, row_stride(width, bpp) * height equals the length of the final
\* buffer minus pixel_offset, for the returned header and for the fields
\* stored in the buffer.
StrideInvariant ==
  (FixReturned /\ ~warned) =>
    /\ RowStride(hdr.width, hdr.bpp) * hdr.height = Len(out) - hdr.offset
    /\ Len(out) >= 30 =>
         RowStride(u32(out, 18), u16(out, 28)) * u32(out, 22) = Len(out) - u32(out, 10)

StrideWitness ==
  /\ FixReturned /\ ~warned
  /\ hdr.height # original.height /\ hdr.height > 1
  /\ hdr.width > 1

\* C2 - Idempotence (as stated): on an already-correct file fix returns the
\* input buffer and the input header unchanged.
AlreadyCorrect ==
  /\ Parseable /\ ValidBpp
  /\ (In.bpp > 8 => In.offset = 54)
  /\ In.dib_size = 40
  /\ In.file_size = Len(file)
  /\ RowStride(In.width, In.bpp) * In.height = Len(file) - In.offset

Idempotence ==
  AlreadyCorrect => /\ ~FixFailed
                    /\ FixReturned => (out = file /\ hdr = In /\ ~changed)

\* C3 - Invalid bpp is fatal (as stated): a bpp of zero or not a multiple
\* of 8 makes fix fail with the invalid-bpp error, and no file is written.
InvalidBppFatal ==
  (Parseable /\ ~ValidBpp) => /\ ~written
                              /\ pc = "error" => err = "InvalidBpp"

\* C4 - File-size invariant: after every non-fatal run of fix, the returned
\* file_size and the 32-bit value at offset 2 of the written buffer equal the
\* length of the written buffer.
FileSizeInvariant ==
  FixReturned => /\ hdr.file_size = Len(out)
                 /\ CanUnpack(out, 2, 4)
                 /\ u32(out, 2) = Len(out)

FileSizeWitness ==
  /\ FixReturned
  /\ Len(out) < Len(file)
  /\ original.file_size = Len(file)

\* C5 - Pixel-offset rule: after every non-fatal run of fix, pixel_offset is
\* 54 if the input bpp exceeds 8 and the input's pixel_offset otherwise.
PixelOffsetRule ==
  FixReturned =>
    /\ hdr.offset = (IF In.bpp > 8 THEN 54 ELSE In.offset)
    /\ CanUnpack(out, 10, 4) => u32(out, 10) = hdr.offset

PixelOffsetWitness ==
  /\ FixReturned
  /\ In.bpp <= 8
  /\ In.offset # 54 /\ hdr.offset = In.offset

\* C6 (as stated) - Variant duality: when both variants are emitted, the
\* height formula applied to the width stored in the height-variant gives
\* the repaired height.
VariantDuality ==
  \A k \in HeightVariants : WidthVariants # {} =>
    LET vb == variants[k].buf
        rs == RowStride(u32(vb, 18), u16(vb, 28))
    IN  rs # 0 /\ px % rs = 0 /\ px \div rs = hdr.height

\* C6 (amended) - when both variants are emitted, the height formula applied
\* to the width stored in the height-variant gives the height stored in the
\* height-variant, which differs from the repaired height.
VariantDualityAmended ==
  \A k \in HeightVariants : WidthVariants # {} =>
    LET vb == variants[k].buf
        rs == RowStride(u32(vb, 18), u16(vb, 28))
    IN  /\ rs # 0 /\ px % rs = 0
        /\ px \div rs = u32(vb, 22)
        /\ px \div rs # hdr.height

VariantDualityWitness ==
  /\ HeightVariants # {} /\ WidthVariants # {}
  /\ hdr.width > 1

\* C7 - Trailing garbage: a header-consistent file followed by exactly 50
\* extra bytes is repaired by cutting those 50 bytes; width and height stay,
\* file_size becomes the new length.
ConsistentPlusGarbage ==
  /\ HasSignature(file) /\ Len(file) - 50 >= 30
  /\ ValidBpp
  /\ (In.bpp > 8 => In.offset = 54)
  /\ In.dib_size = 40
  /\ RowStride(In.width, In.bpp) * In.height = Len(file) - 50 - In.offset

GarbageTruncated ==
  ConsistentPlusGarbage =>
    /\ ~FixFailed
    /\ FixReturned => /\ hdr.width = In.width
                      /\ hdr.height = In.height
                      /\ Len(out) = Len(file) - 50
                      /\ hdr.file_size = Len(out)
                      /\ u32(out, 2) = Len(out)

GarbageWitness ==
  /\ ConsistentPlusGarbage /\ FixReturned
  /\ In.width > 0 /\ In.height > 0
  /\ In.file_size # Len(file) - 50

\* C8 - Frame of repair: the written buffer is never longer than the input,
\* and outside the byte ranges [2,6) and [10,26) it equals the input byte
\* for byte.
InFieldRange(o) == (o >= 2 /\ o < 6) \/ (o >= 10 /\ o < 26)

FrameOfRepair ==
  FixReturned =>
    /\ Len(out) <= Len(file)
    /\ \A i \in 1..Len(out) : ~InFieldRange(i - 1) => out[i] = file[i]

FrameWitness ==
  /\ FixReturned /\ changed
  /\ Len(out) < Len(file) /\ Len(out) > 30
  /\ hdr.offset # In.offset /\ hdr.dib_size # In.dib_size

\* C9 - Totality (as stated): on a file with the signature, at least 30
\* bytes and a bpp that is a positive multiple of 8, fix raises no error.
Totality == (Parseable /\ ValidBpp) => ~FixFailed

\* C10 - Height-variant reachability: brute_variants, given what fix
\* returned, emits a height-variant only if the pixel-byte count is 0 and the
\* repaired height is not 0.
HeightVariantOnlyWhenEmpty ==
  HeightVariants # {} => (px = 0 /\ hdr.height # 0)

HeightVariantWitness ==
  /\ HeightVariants # {}
  /\ pc = "done"

====
